---------------------------- MODULE Spec2Model ----------------------------
(***************************************************************************)
(* Model of streamdb's Operator (operator.go): the permission-checked      *)
(* proxy that binds an acting Device (or nil, the administrator) to the    *)
(* Database, and of dbmaker's WaitPort.                                    *)
(*                                                                         *)
(* The users package (PermissionLevel, GeneralPermissions, the relations)   *)
(* and the Database methods behind the Operator are not among the source   *)
(* files; they are modelled from the specification's sections 3 and 4.     *)
(***************************************************************************)
EXTENDS Naturals, Sequences, FiniteSets

VARIABLES db, dev, storageCalls, last, wp

vars == <<db, dev, storageCalls, last, wp>>

(***************************************************************************)
(* Bounds of the model.                                                    *)
(***************************************************************************)
\* storage calls after which no further call reaches storage
MaxStorageCalls == 2

(***************************************************************************)
(* users.PermissionLevel: the ordered scale of section 3.                  *)
(***************************************************************************)
NONE == 0
ENABLED_ == 1
FAMILY == 2
USER == 3
DEVICE == 4
ROOT == 5
ADMIN == 6

Gte(actual, required) == actual >= required

MaxLevel(a, b) == IF a >= b THEN a ELSE b

(***************************************************************************)
(* Errors (operator.go:9-13) and the storage collaborator's errors.        *)
(***************************************************************************)
OK == "nil"
PERMISSION_ERROR == "Insufficient Privileges"
INVALID_PATH_ERROR == "The given path is invalid"
InvalidParameterError == "Invalid Parameter"
\* a nil pointer dereference: the Go runtime panics, the call returns nothing
PANIC == "panic: nil pointer dereference"
NotFound == "storage: not found"
StorageError == "storage: constraint violated"

(***************************************************************************)
(* Entities.  A nil pointer is the record NIL.                             *)
(***************************************************************************)
NIL == [nil |-> TRUE]

UserIds == {1, 2, 7}
DeviceIds == {1, 2, 3, 4}
CarrierIds == {1}
DeviceNames == {"a", "b"}
StreamNames == {"s"}
StreamTypes == {"float"}
\* the levels GeneralPermissions can yield for a stored Device
DeviceLevels == {NONE, ENABLED_, ROOT}

User(u) == [UserId |-> u]
Device(d, u, n, p) == [DeviceId |-> d, UserId |-> u, Name |-> n, Perm |-> p]
Stream(d, n) == [DeviceId |-> d, Name |-> n]
PhoneCarrier(c) == [Id |-> c]

\* the database a test fixture starts from: two accounts, three devices
InitialDb ==
    [users    |-> {1, 2},
     devices  |-> {Device(1, 1, "a", ENABLED_), Device(2, 1, "b", ROOT),
                   Device(3, 2, "a", NONE)},
     nextDeviceId |-> 4,
     streams  |-> {Stream(1, "s")},
     carriers |-> {}]

(***************************************************************************)
(* users.Device: GeneralPermissions and the relation engine (section 4.1). *)
(* d is the acting Device, NIL for the administrator.                      *)
(***************************************************************************)
GeneralPermissions(d) == IF d = NIL THEN ADMIN ELSE d.Perm

RelationToUser(d, user) ==
    IF d = NIL THEN ADMIN
    ELSE IF user # NIL /\ d.UserId = user.UserId
         THEN MaxLevel(USER, GeneralPermissions(d))
         ELSE GeneralPermissions(d)

RelationToDevice(d, target) ==
    IF d = NIL THEN ADMIN
    ELSE IF target # NIL /\ target.DeviceId = d.DeviceId
         THEN MaxLevel(DEVICE, GeneralPermissions(d))
         ELSE IF target # NIL /\ target.UserId = d.UserId
              THEN MaxLevel(FAMILY, GeneralPermissions(d))
              ELSE GeneralPermissions(d)

RelationToStream(d, stream, owner) == RelationToDevice(d, owner)

(***************************************************************************)
(* The Database behind the Operator (section 2: the storage contract).     *)
(* A storage method takes the database d and yields the error, the value   *)
(* returned and the database it leaves.                                    *)
(***************************************************************************)
St(err, ret, d) == [err |-> err, ret |-> ret, db |-> d]

DevicesById(d, id) == {x \in d.devices : x.DeviceId = id}

Db_CreateUser(d, u) ==
    IF u \in d.users THEN St(StorageError, NIL, d)
    ELSE St(OK, NIL, [d EXCEPT !.users = @ \cup {u}])

Db_ReadUserById(d, u) ==
    IF u \in d.users THEN St(OK, User(u), d) ELSE St(NotFound, NIL, d)

Db_ReadUserByName(d, u) == Db_ReadUserById(d, u)

Db_ReadUserByEmail(d, u) == Db_ReadUserById(d, u)

Db_ReadAllUsers(d) == St(OK, {User(u) : u \in d.users}, d)

Db_UpdateUser(d, user) ==
    IF user.UserId \in d.users THEN St(OK, NIL, d) ELSE St(NotFound, NIL, d)

\* deleting a User deletes the Devices it owns and their Streams
Db_DeleteUser(d, u) ==
    IF u \notin d.users THEN St(NotFound, NIL, d)
    ELSE LET gone == {x.DeviceId : x \in {y \in d.devices : y.UserId = u}}
         IN  St(OK, NIL,
                [d EXCEPT !.users = @ \ {u},
                          !.devices = {x \in @ : x.UserId # u},
                          !.streams = {x \in @ : x.DeviceId \notin gone}])

Db_CreatePhoneCarrier(d, c) ==
    IF c \in d.carriers THEN St(StorageError, NIL, d)
    ELSE St(OK, NIL, [d EXCEPT !.carriers = @ \cup {c}])

Db_ReadPhoneCarrierById(d, c) ==
    IF c \in d.carriers THEN St(OK, PhoneCarrier(c), d)
    ELSE St(NotFound, NIL, d)

Db_ReadAllPhoneCarriers(d) == St(OK, {PhoneCarrier(c) : c \in d.carriers}, d)

Db_UpdatePhoneCarrier(d, carrier) ==
    IF carrier.Id \in d.carriers THEN St(OK, NIL, d)
    ELSE St(NotFound, NIL, d)

Db_DeletePhoneCarrier(d, c) ==
    IF c \in d.carriers THEN St(OK, NIL, [d EXCEPT !.carriers = @ \ {c}])
    ELSE St(NotFound, NIL, d)

\* a new Device takes the next id of the sequence (an id is never used
\* again) and starts enabled
Db_CreateDevice(d, name, u) ==
    IF \/ u \notin d.users
       \/ d.nextDeviceId \notin DeviceIds
       \/ \E x \in d.devices : x.UserId = u /\ x.Name = name
    THEN St(StorageError, NIL, d)
    ELSE St(OK, NIL,
            [d EXCEPT !.devices =
                          @ \cup {Device(d.nextDeviceId, u, name, ENABLED_)},
                      !.nextDeviceId = @ + 1])

Db_ReadDevicesForUserId(d, u) ==
    St(OK, {x \in d.devices : x.UserId = u}, d)

\* a Device's API key is identified with its id: both are unique per Device
Db_ReadDeviceByApiKey(d, key) ==
    IF DevicesById(d, key) = {} THEN St(NotFound, NIL, d)
    ELSE St(OK, CHOOSE x \in DevicesById(d, key) : TRUE, d)

Db_ReadDeviceForUserByName(d, u, name) ==
    LET found == {x \in d.devices : x.UserId = u /\ x.Name = name}
    IN  IF found = {} THEN St(NotFound, NIL, d)
        ELSE St(OK, CHOOSE x \in found : TRUE, d)

Db_UpdateDevice(d, update) ==
    IF DevicesById(d, update.DeviceId) = {} THEN St(NotFound, NIL, d)
    ELSE St(OK, NIL,
            [d EXCEPT !.devices =
                {x \in @ : x.DeviceId # update.DeviceId} \cup {update}])

Db_DeleteDevice(d, id) ==
    IF DevicesById(d, id) = {} THEN St(NotFound, NIL, d)
    ELSE St(OK, NIL,
            [d EXCEPT !.devices = {x \in @ : x.DeviceId # id},
                      !.streams = {x \in @ : x.DeviceId # id}])

Db_CreateStream(d, name, type, id) ==
    IF DevicesById(d, id) = {} \/ Stream(id, name) \in d.streams
    THEN St(StorageError, NIL, d)
    ELSE St(OK, NIL, [d EXCEPT !.streams = @ \cup {Stream(id, name)}])

Db_ReadStreamsByDevice(d, id) ==
    St(OK, {x \in d.streams : x.DeviceId = id}, d)

Db_ReadStreamByDeviceIdAndName(d, id, name) ==
    IF Stream(id, name) \in d.streams THEN St(OK, Stream(id, name), d)
    ELSE St(NotFound, NIL, d)

\* the Operator hands a nil stream through (operator.go:253); storage
\* rejects it
Db_UpdateStream(d, stream) ==
    IF stream = NIL THEN St(StorageError, NIL, d)
    ELSE IF stream \in d.streams THEN St(OK, NIL, d)
         ELSE St(NotFound, NIL, d)

\* a Stream's id is its (device, name) pair
Db_DeleteStream(d, stream) ==
    IF stream \in d.streams
    THEN St(OK, NIL, [d EXCEPT !.streams = @ \ {stream}])
    ELSE St(NotFound, NIL, d)

(***************************************************************************)
(* Operator methods (operator.go:59-262).  o is the Operator's acting      *)
(* Device o.dev (NIL: the administrator), d the database o.db.  A method   *)
(* yields the error and value it returns, the database it leaves, the      *)
(* storage calls it made in order (dcalls), and the permission check it    *)
(* evaluated: the level computed and the level required.                   *)
(***************************************************************************)
R(err, ret, d, dcalls, checked, level, required) ==
    [err |-> err, ret |-> ret, db |-> d, dcalls |-> dcalls,
     checked |-> checked, level |-> level, required |-> required]

DCall(fn, args, st) ==
    [fn |-> fn, args |-> args, err |-> st.err, ret |-> st.ret]

\* return InvalidParameterError
Invalid(d) == R(InvalidParameterError, NIL, d, <<>>, FALSE, NONE, NONE)

\* return PERMISSION_ERROR
Denied(d, level, required) ==
    R(PERMISSION_ERROR, NIL, d, <<>>, TRUE, level, required)

\* a nil pointer is dereferenced after the permission check passed
Panics(d, level, required) == R(PANIC, NIL, d, <<>>, TRUE, level, required)

\* return o.GetDatabase().fn(args)
Delegate(fn, args, st, level, required) ==
    R(st.err, st.ret, st.db, <<DCall(fn, args, st)>>, TRUE, level, required)

\* CreateUser gated by the Device record the database holds now rather
\* than by the Operator's snapshot
CreateUser_Refetch(o, d, username) ==
    LET now == IF o = NIL \/ DevicesById(d, o.DeviceId) = {} THEN o
               ELSE CHOOSE x \in DevicesById(d, o.DeviceId) : TRUE
    IN  IF ~Gte(GeneralPermissions(now), ROOT)
        THEN Denied(d, GeneralPermissions(now), ROOT)
        ELSE Delegate("CreateUser", <<username>>, Db_CreateUser(d, username),
                      GeneralPermissions(now), ROOT)

CreateUser(o, d, username) ==
    IF ~Gte(GeneralPermissions(o), ROOT)
    THEN Denied(d, GeneralPermissions(o), ROOT)
    ELSE Delegate("CreateUser", <<username>>, Db_CreateUser(d, username),
                  GeneralPermissions(o), ROOT)

ReadUser(o, d, username) ==
    IF ~Gte(GeneralPermissions(o), ROOT)
    THEN Denied(d, GeneralPermissions(o), ROOT)
    ELSE Delegate("ReadUserByName", <<username>>,
                  Db_ReadUserByName(d, username), GeneralPermissions(o), ROOT)

ReadUserById(o, d, id) ==
    IF ~Gte(GeneralPermissions(o), ROOT)
    THEN Denied(d, GeneralPermissions(o), ROOT)
    ELSE Delegate("ReadUserById", <<id>>, Db_ReadUserById(d, id),
                  GeneralPermissions(o), ROOT)

ReadUserByEmail(o, d, email) ==
    IF ~Gte(GeneralPermissions(o), ROOT)
    THEN Denied(d, GeneralPermissions(o), ROOT)
    ELSE Delegate("ReadUserByEmail", <<email>>, Db_ReadUserByEmail(d, email),
                  GeneralPermissions(o), ROOT)

ReadAllUsers(o, d) ==
    IF ~Gte(GeneralPermissions(o), ROOT)
    THEN Denied(d, GeneralPermissions(o), ROOT)
    ELSE Delegate("ReadAllUsers", <<>>, Db_ReadAllUsers(d),
                  GeneralPermissions(o), ROOT)

\* UpdateUser open to the USER level, which a Device holds on its own User
UpdateUser_UserLevel(o, d, user) ==
    IF user = NIL THEN Invalid(d)
    ELSE IF ~Gte(RelationToUser(o, user), USER)
         THEN Denied(d, RelationToUser(o, user), USER)
         ELSE Delegate("UpdateUser", <<user>>, Db_UpdateUser(d, user),
                       RelationToUser(o, user), USER)

UpdateUser(o, d, user) ==
    IF user = NIL THEN Invalid(d)
    ELSE IF ~Gte(RelationToUser(o, user), ROOT)
         THEN Denied(d, RelationToUser(o, user), ROOT)
         ELSE Delegate("UpdateUser", <<user>>, Db_UpdateUser(d, user),
                       RelationToUser(o, user), ROOT)

DeleteUser(o, d, id) ==
    IF ~Gte(GeneralPermissions(o), ROOT)
    THEN Denied(d, GeneralPermissions(o), ROOT)
    ELSE Delegate("DeleteUser", <<id>>, Db_DeleteUser(d, id),
                  GeneralPermissions(o), ROOT)

CreatePhoneCarrier(o, d, name) ==
    IF ~Gte(GeneralPermissions(o), ROOT)
    THEN Denied(d, GeneralPermissions(o), ROOT)
    ELSE Delegate("CreatePhoneCarrier", <<name>>,
                  Db_CreatePhoneCarrier(d, name), GeneralPermissions(o), ROOT)

ReadPhoneCarrierById(o, d, id) ==
    IF ~Gte(GeneralPermissions(o), ENABLED_)
    THEN Denied(d, GeneralPermissions(o), ENABLED_)
    ELSE Delegate("ReadPhoneCarrierById", <<id>>,
                  Db_ReadPhoneCarrierById(d, id),
                  GeneralPermissions(o), ENABLED_)

ReadAllPhoneCarriers(o, d) ==
    IF ~Gte(GeneralPermissions(o), ENABLED_)
    THEN Denied(d, GeneralPermissions(o), ENABLED_)
    ELSE Delegate("ReadAllPhoneCarriers", <<>>, Db_ReadAllPhoneCarriers(d),
                  GeneralPermissions(o), ENABLED_)

UpdatePhoneCarrier(o, d, carrier) ==
    IF carrier = NIL THEN Invalid(d)
    ELSE IF ~Gte(GeneralPermissions(o), ROOT)
         THEN Denied(d, GeneralPermissions(o), ROOT)
         ELSE Delegate("UpdatePhoneCarrier", <<carrier>>,
                       Db_UpdatePhoneCarrier(d, carrier),
                       GeneralPermissions(o), ROOT)

DeletePhoneCarrier(o, d, carrierId) ==
    IF ~Gte(GeneralPermissions(o), ROOT)
    THEN Denied(d, GeneralPermissions(o), ROOT)
    ELSE Delegate("DeletePhoneCarrier", <<carrierId>>,
                  Db_DeletePhoneCarrier(d, carrierId),
                  GeneralPermissions(o), ROOT)

CreateDevice(o, d, Name, Owner) ==
    IF Owner = NIL THEN Invalid(d)
    ELSE IF ~Gte(RelationToUser(o, Owner), USER)
         THEN Denied(d, RelationToUser(o, Owner), USER)
         ELSE Delegate("CreateDevice", <<Name, Owner.UserId>>,
                       Db_CreateDevice(d, Name, Owner.UserId),
                       RelationToUser(o, Owner), USER)

\* no nil check: u.UserId (line 192) dereferences a nil u
ReadDevicesForUser(o, d, u) ==
    IF ~Gte(RelationToUser(o, u), FAMILY)
    THEN Denied(d, RelationToUser(o, u), FAMILY)
    ELSE IF u = NIL THEN Panics(d, RelationToUser(o, u), FAMILY)
         ELSE Delegate("ReadDevicesForUserId", <<u.UserId>>,
                       Db_ReadDevicesForUserId(d, u.UserId),
                       RelationToUser(o, u), FAMILY)

\* ReadDeviceByApiKey reading storage before it checks the permission
ReadDeviceByApiKey_LookupFirst(o, d, Key) ==
    LET st == Db_ReadDeviceByApiKey(d, Key)
    IN  IF ~Gte(GeneralPermissions(o), ROOT)
        THEN R(PERMISSION_ERROR, NIL, d,
               <<DCall("ReadDeviceByApiKey", <<Key>>, st)>>,
               TRUE, GeneralPermissions(o), ROOT)
        ELSE Delegate("ReadDeviceByApiKey", <<Key>>, st,
                      GeneralPermissions(o), ROOT)

ReadDeviceByApiKey(o, d, Key) ==
    IF ~Gte(GeneralPermissions(o), ROOT)
    THEN Denied(d, GeneralPermissions(o), ROOT)
    ELSE Delegate("ReadDeviceByApiKey", <<Key>>, Db_ReadDeviceByApiKey(d, Key),
                  GeneralPermissions(o), ROOT)

\* UpdateDevice gated by GeneralPermissions, not by the relation
UpdateDevice_GeneralOnly(o, d, update) ==
    IF update = NIL THEN Invalid(d)
    ELSE IF ~Gte(GeneralPermissions(o), DEVICE)
         THEN Denied(d, GeneralPermissions(o), DEVICE)
         ELSE Delegate("UpdateDevice", <<update>>, Db_UpdateDevice(d, update),
                       GeneralPermissions(o), DEVICE)

UpdateDevice(o, d, update) ==
    IF update = NIL THEN Invalid(d)
    ELSE IF ~Gte(RelationToDevice(o, update), DEVICE)
         THEN Denied(d, RelationToDevice(o, update), DEVICE)
         ELSE Delegate("UpdateDevice", <<update>>, Db_UpdateDevice(d, update),
                       RelationToDevice(o, update), DEVICE)

\* DeleteDevice open to the ENABLED level
DeleteDevice_EnabledSuffices(o, d, device) ==
    IF device = NIL THEN Invalid(d)
    ELSE IF ~Gte(RelationToDevice(o, device), ENABLED_)
         THEN Denied(d, RelationToDevice(o, device), ENABLED_)
         ELSE Delegate("DeleteDevice", <<device.DeviceId>>,
                       Db_DeleteDevice(d, device.DeviceId),
                       RelationToDevice(o, device), ENABLED_)

DeleteDevice(o, d, device) ==
    IF device = NIL THEN Invalid(d)
    ELSE IF ~Gte(RelationToDevice(o, device), USER)
         THEN Denied(d, RelationToDevice(o, device), USER)
         ELSE Delegate("DeleteDevice", <<device.DeviceId>>,
                       Db_DeleteDevice(d, device.DeviceId),
                       RelationToDevice(o, device), USER)

CreateStream(o, d, Name, Type, owner) ==
    IF owner = NIL THEN Invalid(d)
    ELSE IF ~Gte(RelationToDevice(o, owner), USER)
         THEN Denied(d, RelationToDevice(o, owner), USER)
         ELSE Delegate("CreateStream", <<Name, Type, owner.DeviceId>>,
                       Db_CreateStream(d, Name, Type, owner.DeviceId),
                       RelationToDevice(o, owner), USER)

\* no nil check: operand.DeviceId (line 244) dereferences a nil operand
ReadStreamsByDevice(o, d, operand) ==
    IF ~Gte(RelationToDevice(o, operand), FAMILY)
    THEN Denied(d, RelationToDevice(o, operand), FAMILY)
    ELSE IF operand = NIL THEN Panics(d, RelationToDevice(o, operand), FAMILY)
         ELSE Delegate("ReadStreamsByDevice", <<operand.DeviceId>>,
                       Db_ReadStreamsByDevice(d, operand.DeviceId),
                       RelationToDevice(o, operand), FAMILY)

\* no nil check: the stream goes to storage as it came
UpdateStream(o, d, device, stream) ==
    IF ~Gte(RelationToStream(o, stream, device), USER)
    THEN Denied(d, RelationToStream(o, stream, device), USER)
    ELSE Delegate("UpdateStream", <<stream>>, Db_UpdateStream(d, stream),
                  RelationToStream(o, stream, device), USER)

\* no nil check: s.StreamId (line 261) dereferences a nil s
DeleteStream(o, d, device, s) ==
    IF ~Gte(RelationToStream(o, s, device), USER)
    THEN Denied(d, RelationToStream(o, s, device), USER)
    ELSE IF s = NIL THEN Panics(d, RelationToStream(o, s, device), USER)
         ELSE Delegate("DeleteStream", <<s>>, Db_DeleteStream(d, s),
                       RelationToStream(o, s, device), USER)

(***************************************************************************)
(* ResolvePath (operator.go:282-324).  A path is a sequence of tokens,     *)
(* each the separator "/" or a bare name; strings.Split cuts it at every   *)
(* separator, an empty segment being the empty sequence.                   *)
(***************************************************************************)
RECURSIVE SplitFrom(_, _, _)
SplitFrom(path, i, cur) ==
    IF i > Len(path) THEN <<cur>>
    ELSE IF path[i] = "/" THEN <<cur>> \o SplitFrom(path, i + 1, <<>>)
         ELSE SplitFrom(path, i + 1, Append(cur, path[i]))

Split(path) == SplitFrom(path, 1, <<>>)

\* the string of a segment: "" for the empty one, else its name
Segment(seg) == IF seg = <<>> THEN "" ELSE seg[1]

Resolved(user, device, stream) ==
    [user |-> user, device |-> device, stream |-> stream]

\* lines 319-323: device is the outer variable declared in the signature
ResolveStream(d, user, device, sname, ru, calls) ==
    IF sname = ""
    THEN R(OK, Resolved(user, device, NIL), d, calls,
           ru.checked, ru.level, ru.required)
    ELSE IF device = NIL
         THEN R(PANIC, NIL, d, calls, ru.checked, ru.level, ru.required)
         ELSE LET rs == Db_ReadStreamByDeviceIdAndName(d, device.DeviceId,
                                                        sname)
              IN  R(rs.err, Resolved(user, device, rs.ret), d,
                    Append(calls,
                           DCall("ReadStreamByDeviceIdAndName",
                                 <<device.DeviceId, sname>>, rs)),
                    ru.checked, ru.level, ru.required)

\* lines 309-317: "device, err :=" declares a device local to the else
\* block; the outer device stays nil when the lookup succeeds
ResolveDevice(o, d, user, dname, sname, ru) ==
    IF dname = "" THEN ResolveStream(d, user, o, sname, ru, ru.dcalls)
    ELSE LET rd == Db_ReadDeviceForUserByName(d, user.UserId, dname)
             calls == Append(ru.dcalls,
                             DCall("ReadDeviceForUserByName",
                                   <<user.UserId, dname>>, rd))
         IN  IF rd.err # OK
             THEN R(rd.err, Resolved(user, rd.ret, NIL), d, calls,
                    ru.checked, ru.level, ru.required)
             ELSE ResolveStream(d, user, NIL, sname, ru, calls)

\* lines 294-307: both branches of "if uname == ..." read the acting
\* Device's own User; o.GetDevice().UserId dereferences a nil o.dev
ResolveUser(o, d, uname, dname, sname) ==
    IF o = NIL THEN R(PANIC, NIL, d, <<>>, FALSE, NONE, NONE)
    ELSE LET ru == ReadUserById(o, d, o.UserId)
         IN  IF ru.err # OK
             THEN R(ru.err, Resolved(ru.ret, NIL, NIL), d, ru.dcalls,
                    ru.checked, ru.level, ru.required)
             ELSE ResolveDevice(o, d, ru.ret, dname, sname, ru)

ResolvePath(o, d, path) ==
    LET pathsplit == Split(path)
    IN  IF Len(pathsplit) # 3
        THEN R(INVALID_PATH_ERROR, Resolved(NIL, NIL, NIL), d, <<>>,
               FALSE, NONE, NONE)
        ELSE ResolveUser(o, d, Segment(pathsplit[1]), Segment(pathsplit[2]),
                         Segment(pathsplit[3]))

(***************************************************************************)
(* dbmaker.WaitPort (part_000:29-51).  wp is the call in progress: its     *)
(* input error, the err and i of the loop, the dial attempts made, how     *)
(* many of them failed, and the error returned.                            *)
(***************************************************************************)
PortTimeoutLoops == 100

ErrTimeout ==
    "Timeout on operation reached - it looks like something crashed."
DialError == "dial tcp: connection refused"
InputError == "input error"

\* what net.Dial may answer
DialOutcomes == {OK, DialError}

WaitPortCall(inErr) ==
    [pc |-> "call", inErr |-> inErr, err |-> inErr, i |-> 0, dials |-> 0,
     failed |-> 0, ret |-> OK]

WaitPortIdle == [WaitPortCall(OK) EXCEPT !.pc = "idle"]

Dialled(w, r) ==
    [w EXCEPT !.err = r, !.dials = @ + 1,
              !.failed = IF r = OK THEN @ ELSE @ + 1]

\* lines 31-33
WaitPortReturnInput ==
    /\ wp.pc = "call"
    /\ wp.inErr # OK
    /\ wp' = [wp EXCEPT !.pc = "done", !.ret = wp.inErr]
    /\ UNCHANGED <<db, dev, storageCalls, last>>

\* lines 39-40
WaitPortFirstDial ==
    /\ wp.pc = "call"
    /\ wp.inErr = OK
    /\ \E r \in DialOutcomes :
          wp' = [Dialled(wp, r) EXCEPT !.pc = "loop", !.i = 0]
    /\ UNCHANGED <<db, dev, storageCalls, last>>

\* lines 41-44: one turn of the loop
WaitPortLoop ==
    /\ wp.pc = "loop"
    /\ wp.err # OK /\ wp.i < PortTimeoutLoops
    /\ \E r \in DialOutcomes : wp' = [Dialled(wp, r) EXCEPT !.i = @ + 1]
    /\ UNCHANGED <<db, dev, storageCalls, last>>

\* lines 45-50
WaitPortReturn ==
    /\ wp.pc = "loop"
    /\ ~(wp.err # OK /\ wp.i < PortTimeoutLoops)
    /\ wp' = [wp EXCEPT !.pc = "done",
                        !.ret = IF wp.i >= PortTimeoutLoops THEN ErrTimeout
                                ELSE OK]
    /\ UNCHANGED <<db, dev, storageCalls, last>>

(***************************************************************************)
(* The state machine.  dev[s] is the acting Device of the Operator held    *)
(* in slot s; last is the call made last, with what it returned.           *)
(***************************************************************************)
Slots == {1, 2}

\* slot 1 holds the Operator of a request, obtained anew by GetOperator or
\* GetAdminOperator, and runs every operation; slot 2 holds another
\* Operator, the administrator's, which changes and deletes Device records
\* between the calls of slot 1
RequestSlots == {1}

Paths ==
    {<<>>, <<"/", "/">>, <<"/", "/", "s">>, <<"/", "b", "/">>,
     <<"/", "a", "/", "s">>, <<"/", "b", "/", "s">>,
     <<"u", "/", "/", "s">>, <<"u", "/", "b", "/", "s">>,
     <<"a", "/", "b">>, <<"a", "/", "b", "/", "c", "/", "d">>}

TargetUsers == {User(u) : u \in UserIds} \cup {NIL}

TargetCarriers == {PhoneCarrier(c) : c \in CarrierIds} \cup {NIL}

\* the Device records a caller can hold: those stored and its own snapshot
HeldDevices(s) == db.devices \cup (IF dev[s] = NIL THEN {} ELSE {dev[s]})

TargetDevices(s) == HeldDevices(s) \cup {NIL}

\* an update is a held record with its permission flags set anew
DeviceUpdates(s) ==
    {[t EXCEPT !.Perm = p] : t \in HeldDevices(s), p \in DeviceLevels}
        \cup {NIL}

\* the Stream records passed with a Device: its own, that of Device 1
\* (another Device's when the Device passed is not Device 1), or nil
TargetStreams(device) ==
    (IF device = NIL THEN {} ELSE {Stream(device.DeviceId, "s")})
        \cup {Stream(1, "s"), NIL}

Called(s, op, args, r) ==
    [op |-> op, slot |-> s, caller |-> dev[s], args |-> args,
     err |-> r.err, ret |-> r.ret, dcalls |-> r.dcalls,
     checked |-> r.checked, level |-> r.level, required |-> r.required]

\* the Operator in slot s runs a method to its return; no call that
\* reaches storage starts once MaxStorageCalls storage calls were made
Finish(s, op, args, r) ==
    /\ r.dcalls = <<>> \/ storageCalls < MaxStorageCalls
    /\ db' = r.db
    /\ storageCalls' = storageCalls + Len(r.dcalls)
    /\ last' = Called(s, op, args, r)
    /\ UNCHANGED <<dev, wp>>

GetAdminOperator ==
    \E s \in RequestSlots :
        /\ dev' = [dev EXCEPT ![s] = NIL]
        /\ last' = Called(s, "GetAdminOperator", <<>>,
                          R(OK, NIL, db, <<>>, FALSE, NONE, NONE))
        /\ UNCHANGED <<db, storageCalls, wp>>

GetOperator ==
    \E s \in RequestSlots, apikey \in DeviceIds :
        LET st == Db_ReadDeviceByApiKey(db, apikey)
        IN  /\ storageCalls < MaxStorageCalls
            /\ dev' = IF st.err # OK THEN dev ELSE [dev EXCEPT ![s] = st.ret]
            /\ storageCalls' = storageCalls + 1
            /\ last' = Called(s, "GetOperator", <<apikey>>,
                              R(st.err, NIL, db,
                                <<DCall("ReadDeviceByApiKey", <<apikey>>, st)>>,
                                FALSE, NONE, NONE))
            /\ UNCHANGED <<db, wp>>

DoCreateUser ==
    \E s \in RequestSlots, u \in UserIds :
        Finish(s, "CreateUser", <<u>>, CreateUser(dev[s], db, u))

DoReadUser ==
    \E s \in RequestSlots, u \in UserIds :
        Finish(s, "ReadUser", <<u>>, ReadUser(dev[s], db, u))

DoReadUserById ==
    \E s \in RequestSlots, u \in UserIds :
        Finish(s, "ReadUserById", <<u>>, ReadUserById(dev[s], db, u))

DoReadUserByEmail ==
    \E s \in RequestSlots, u \in UserIds :
        Finish(s, "ReadUserByEmail", <<u>>, ReadUserByEmail(dev[s], db, u))

DoReadAllUsers ==
    \E s \in RequestSlots :
        Finish(s, "ReadAllUsers", <<>>, ReadAllUsers(dev[s], db))

DoUpdateUser ==
    \E s \in RequestSlots, user \in TargetUsers :
        Finish(s, "UpdateUser", <<user>>, UpdateUser(dev[s], db, user))

DoDeleteUser ==
    \E s \in RequestSlots, u \in UserIds :
        Finish(s, "DeleteUser", <<u>>, DeleteUser(dev[s], db, u))

DoCreatePhoneCarrier ==
    \E s \in RequestSlots, c \in CarrierIds :
        Finish(s, "CreatePhoneCarrier", <<c>>,
               CreatePhoneCarrier(dev[s], db, c))

DoReadPhoneCarrierById ==
    \E s \in RequestSlots, c \in CarrierIds :
        Finish(s, "ReadPhoneCarrierById", <<c>>,
               ReadPhoneCarrierById(dev[s], db, c))

DoReadAllPhoneCarriers ==
    \E s \in RequestSlots :
        Finish(s, "ReadAllPhoneCarriers", <<>>,
               ReadAllPhoneCarriers(dev[s], db))

DoUpdatePhoneCarrier ==
    \E s \in RequestSlots, carrier \in TargetCarriers :
        Finish(s, "UpdatePhoneCarrier", <<carrier>>,
               UpdatePhoneCarrier(dev[s], db, carrier))

DoDeletePhoneCarrier ==
    \E s \in RequestSlots, c \in CarrierIds :
        Finish(s, "DeletePhoneCarrier", <<c>>,
               DeletePhoneCarrier(dev[s], db, c))

DoCreateDevice ==
    \E s \in RequestSlots, n \in DeviceNames, Owner \in TargetUsers :
        Finish(s, "CreateDevice", <<n, Owner>>,
               CreateDevice(dev[s], db, n, Owner))

DoReadDevicesForUser ==
    \E s \in RequestSlots, u \in TargetUsers :
        Finish(s, "ReadDevicesForUser", <<u>>,
               ReadDevicesForUser(dev[s], db, u))

DoReadDeviceByApiKey ==
    \E s \in RequestSlots, Key \in DeviceIds :
        Finish(s, "ReadDeviceByApiKey", <<Key>>,
               ReadDeviceByApiKey(dev[s], db, Key))

DoUpdateDevice ==
    \E s \in Slots :
        \E update \in DeviceUpdates(s) :
            Finish(s, "UpdateDevice", <<update>>,
                   UpdateDevice(dev[s], db, update))

DoDeleteDevice ==
    \E s \in Slots :
        \E device \in TargetDevices(s) :
            Finish(s, "DeleteDevice", <<device>>,
                   DeleteDevice(dev[s], db, device))

DoCreateStream ==
    \E s \in RequestSlots, n \in StreamNames, t \in StreamTypes :
        \E owner \in TargetDevices(s) :
            Finish(s, "CreateStream", <<n, t, owner>>,
                   CreateStream(dev[s], db, n, t, owner))

DoReadStreamsByDevice ==
    \E s \in RequestSlots :
        \E operand \in TargetDevices(s) :
            Finish(s, "ReadStreamsByDevice", <<operand>>,
                   ReadStreamsByDevice(dev[s], db, operand))

DoUpdateStream ==
    \E s \in RequestSlots :
        \E device \in TargetDevices(s) :
          \E stream \in TargetStreams(device) :
            Finish(s, "UpdateStream", <<device, stream>>,
                   UpdateStream(dev[s], db, device, stream))

DoDeleteStream ==
    \E s \in RequestSlots :
        \E device \in TargetDevices(s) :
          \E stream \in TargetStreams(device) :
            Finish(s, "DeleteStream", <<device, stream>>,
                   DeleteStream(dev[s], db, device, stream))

DoResolvePath ==
    \E s \in RequestSlots, path \in Paths :
        Finish(s, "ResolvePath", <<path>>, ResolvePath(dev[s], db, path))

\* both slots start with the Operator GetAdminOperator returns
InitOperators ==
    /\ db = InitialDb
    /\ dev = [s \in Slots |-> NIL]
    /\ storageCalls = 0
    /\ last = [op |-> "GetAdminOperator", slot |-> 1, caller |-> NIL,
               args |-> <<>>, err |-> OK, ret |-> NIL, dcalls |-> <<>>,
               checked |-> FALSE, level |-> NONE, required |-> NONE]

Init == InitOperators /\ wp = WaitPortIdle

Next ==
    \/ GetAdminOperator
    \/ GetOperator
    \/ DoCreateUser
    \/ DoReadUser
    \/ DoReadUserById
    \/ DoReadUserByEmail
    \/ DoReadAllUsers
    \/ DoUpdateUser
    \/ DoDeleteUser
    \/ DoCreatePhoneCarrier
    \/ DoReadPhoneCarrierById
    \/ DoReadAllPhoneCarriers
    \/ DoUpdatePhoneCarrier
    \/ DoDeletePhoneCarrier
    \/ DoCreateDevice
    \/ DoReadDevicesForUser
    \/ DoReadDeviceByApiKey
    \/ DoUpdateDevice
    \/ DoDeleteDevice
    \/ DoCreateStream
    \/ DoReadStreamsByDevice
    \/ DoUpdateStream
    \/ DoDeleteStream
    \/ DoResolvePath

Spec == Init /\ [][Next]_vars

\* WaitPort alone, called with a nil or a non-nil input error
InitWaitPort ==
    /\ InitOperators
    /\ wp \in {WaitPortCall(e) : e \in {OK, InputError}}

NextWaitPort ==
    \/ WaitPortReturnInput
    \/ WaitPortFirstDial
    \/ WaitPortLoop
    \/ WaitPortReturn

SpecWaitPort == InitWaitPort /\ [][NextWaitPort]_vars

(***************************************************************************)
(* Vocabulary of the properties.  l is a call record, as last.             *)
(***************************************************************************)
UserOps ==
    {"CreateUser", "ReadUser", "ReadUserById", "ReadUserByEmail",
     "ReadAllUsers", "UpdateUser", "DeleteUser"}

\* operations gated by GeneralPermissions alone
GeneralOps ==
    (UserOps \ {"UpdateUser"}) \cup
    {"CreatePhoneCarrier", "ReadPhoneCarrierById", "ReadAllPhoneCarriers",
     "UpdatePhoneCarrier", "DeletePhoneCarrier", "ReadDeviceByApiKey",
     "ResolvePath"}

\* operations gated by the relation to a Device
DeviceOps ==
    {"UpdateDevice", "DeleteDevice", "CreateStream", "ReadStreamsByDevice",
     "UpdateStream", "DeleteStream"}

\* operations taking an entity argument
EntityOps ==
    DeviceOps \cup
    {"UpdateUser", "UpdatePhoneCarrier", "CreateDevice", "ReadDevicesForUser"}

IsOperatorCall(l) == l.op \notin {"GetOperator", "GetAdminOperator"}

\* the Device a DeviceOps call was made on
TargetDevice(l) == IF l.op = "CreateStream" THEN l.args[3] ELSE l.args[1]

\* the entity arguments of a call
EntityArgs(l) ==
    IF l.op \in {"UpdateStream", "DeleteStream"} THEN {l.args[1], l.args[2]}
    ELSE IF l.op = "CreateStream" THEN {l.args[3]}
    ELSE IF l.op = "CreateDevice" THEN {l.args[2]}
    ELSE IF l.op \in EntityOps THEN {l.args[1]}
    ELSE {}

Rejected(l) == l.err = PERMISSION_ERROR

\* the call went to storage once and returned what storage returned
DelegatedOnce(l) ==
    /\ Len(l.dcalls) = 1
    /\ l.err = l.dcalls[1].err
    /\ l.ret = l.dcalls[1].ret

(***************************************************************************)
(* C1: a call that returns the permission-denied error made no storage     *)
(* call: the database and the count of storage calls are as before it.     *)
(***************************************************************************)
C1_RejectedCallLeavesStorage ==
    [][Rejected(last') =>
          /\ db' = db
          /\ storageCalls' = storageCalls
          /\ last'.dcalls = <<>>]_vars

\* a Device obtained its Operator (one storage call) and had ResolvePath
\* rejected
C1_Witness ==
    /\ Rejected(last)
    /\ last.op = "ResolvePath"
    /\ last.caller # NIL
    /\ storageCalls = 1

(***************************************************************************)
(* C2 as stated: each of the ten operations that take an entity argument   *)
(* returns InvalidParameterError for a nil entity argument, before any     *)
(* permission check and any storage call.                                  *)
(***************************************************************************)
C2_NilArgumentIsInvalidParameter ==
    (last.op \in EntityOps /\ NIL \in EntityArgs(last)) =>
        /\ last.err = InvalidParameterError
        /\ ~last.checked
        /\ last.dcalls = <<>>

(***************************************************************************)
(* C3 as stated: ResolvePath("//s") by a Device, whatever its              *)
(* GeneralPermissions, is never rejected: it returns the Device's User,    *)
(* the Device and its stream s when that stream is stored, and the         *)
(* stream lookup's error otherwise.                                        *)
(***************************************************************************)
C3_OwnStreamPathResolves ==
    (/\ last.op = "ResolvePath"
     /\ last.args[1] = <<"/", "/", "s">>
     /\ last.caller # NIL) =>
        /\ ~Rejected(last)
        /\ IF Stream(last.caller.DeviceId, "s") \in db.streams
           THEN /\ last.err = OK
                /\ last.ret = Resolved(User(last.caller.UserId), last.caller,
                                       Stream(last.caller.DeviceId, "s"))
           ELSE last.err = NotFound

(***************************************************************************)
(* C4 as stated: from a stored Device named n, ResolvePath("/n/s")         *)
(* returns the same Device, Stream and error as ResolvePath("//s").        *)
(***************************************************************************)
C4_ExplicitSelfNameResolvesAsEmpty ==
    (/\ last.op = "ResolvePath"
     /\ last.caller # NIL
     /\ last.caller \in db.devices
     /\ last.args[1] = <<"/", last.caller.Name, "/", "s">>) =>
        LET empty == ResolvePath(last.caller, db, <<"/", "/", "s">>)
        IN  /\ last.err = empty.err
            /\ last.ret = empty.ret

(***************************************************************************)
(* C5: a User operation on a non-nil target is permitted exactly when the  *)
(* caller's GeneralPermissions is at least ROOT, whichever User is the     *)
(* target; a permitted call goes to storage once.                          *)
(***************************************************************************)
C5_UserOpsNeedRoot ==
    (last.op \in UserOps /\ NIL \notin EntityArgs(last)) =>
        /\ ~Rejected(last) <=> Gte(GeneralPermissions(last.caller), ROOT)
        /\ ~Rejected(last) => DelegatedOnce(last)

\* a Device below ROOT was refused UpdateUser on its own User
C5_Witness ==
    /\ last.op = "UpdateUser"
    /\ last.caller # NIL
    /\ last.args[1] = User(last.caller.UserId)
    /\ Rejected(last)

(***************************************************************************)
(* C6: on a Device of another User, the level that gates a Device or       *)
(* Stream operation does not exceed the caller's GeneralPermissions; a     *)
(* caller whose GeneralPermissions is ENABLED is rejected by UpdateDevice, *)
(* DeleteDevice, CreateStream, UpdateStream and DeleteStream, and the      *)
(* database is left as it was.                                             *)
(***************************************************************************)
CrossAccount(l) ==
    /\ l.op \in DeviceOps
    /\ l.caller # NIL
    /\ TargetDevice(l) # NIL
    /\ TargetDevice(l).UserId # l.caller.UserId

C7_AdministratorReachesStorage ==
    (/\ IsOperatorCall(last)
     /\ last.caller = NIL
     /\ NIL \notin EntityArgs(last)
     /\ last.op = "ResolvePath" => Len(Split(last.args[1])) = 3) =>
        /\ ~Rejected(last)
        /\ last.dcalls # <<>>
        /\ last.err = last.dcalls[Len(last.dcalls)].err

(***************************************************************************)
(* C8: a Device's relation to itself is at least DEVICE whatever its       *)
(* GeneralPermissions: UpdateDevice, CreateStream and ReadStreamsByDevice  *)
(* on itself are never rejected, and CreateStream calls storage once with  *)
(* (name, type, the Device's id) and returns its result.                   *)
(***************************************************************************)
SelfAccess(l) ==
    /\ l.op \in {"UpdateDevice", "CreateStream", "ReadStreamsByDevice"}
    /\ l.caller # NIL
    /\ TargetDevice(l) # NIL
    /\ TargetDevice(l).DeviceId = l.caller.DeviceId

C8_SelfAccess ==
    SelfAccess(last) =>
        /\ last.checked
        /\ Gte(last.level, DEVICE)
        /\ ~Rejected(last)
        /\ last.op = "CreateStream" =>
              /\ DelegatedOnce(last)
              /\ last.dcalls[1].fn = "CreateStream"
              /\ last.dcalls[1].args =
                     <<last.args[1], last.args[2], last.caller.DeviceId>>

\* a Device without any general permission created a stream of its own
C8_Witness ==
    /\ SelfAccess(last)
    /\ last.op = "CreateStream"
    /\ GeneralPermissions(last.caller) = NONE
    /\ last.err = OK
    /\ Stream(last.caller.DeviceId, last.args[1]) \in db.streams

(***************************************************************************)
(* C9: no Operator operation rebinds an Operator's acting Device; the      *)
(* level a call is gated by is the relation of that snapshot to the        *)
(* target passed, whatever the database now holds for the Device; the      *)
(* call is rejected exactly when that level is below the required one;     *)
(* and the storage call is made on the target that was passed.             *)
(***************************************************************************)
SnapshotLevel(snapshot, l) ==
    IF l.op \in GeneralOps THEN GeneralPermissions(snapshot)
    ELSE IF l.op = "CreateDevice" THEN RelationToUser(snapshot, l.args[2])
    ELSE IF l.op \in {"UpdateUser", "ReadDevicesForUser"}
         THEN RelationToUser(snapshot, l.args[1])
    ELSE RelationToDevice(snapshot, TargetDevice(l))

\* what the storage call of a Device, Stream or owner operation names
DelegatedTarget(l) ==
    IF l.op \in {"UpdateUser", "UpdateDevice"} THEN l.args[1]
    ELSE IF l.op \in {"UpdateStream", "DeleteStream"} THEN l.args[2]
    ELSE IF l.op = "CreateDevice" THEN l.args[2].UserId
    ELSE IF l.op = "ReadDevicesForUser" THEN l.args[1].UserId
    ELSE TargetDevice(l).DeviceId

C9_SnapshotSemantics ==
    [][IsOperatorCall(last') =>
          /\ dev' = dev
          /\ last'.checked =>
                /\ last'.level = SnapshotLevel(dev[last'.slot], last')
                /\ Rejected(last') <=> ~Gte(last'.level, last'.required)
          /\ (/\ last'.op \in EntityOps \ {"UpdatePhoneCarrier"}
              /\ last'.dcalls # <<>>) =>
                 LET a == last'.dcalls[1].args
                 IN  a[Len(a)] = DelegatedTarget(last')]_vars

\* the stored record of the caller's Device was raised to ROOT by the
\* administrator Operator; the caller's CreateUser is still rejected
C9_Witness ==
    /\ last.op = "CreateUser"
    /\ last.slot = 1
    /\ last.caller # NIL
    /\ last.caller = dev[1]
    /\ Rejected(last)
    /\ \E x \in db.devices :
          x.DeviceId = last.caller.DeviceId /\ GeneralPermissions(x) = ROOT

(***************************************************************************)
(* C10 as stated: WaitPort with a nil input error makes at most            *)
(* PortTimeoutLoops + 1 dials and returns ErrTimeout exactly when every    *)
(* dial failed, nil when one succeeded; with a non-nil input error it      *)
(* returns that error without dialling.                                    *)
(***************************************************************************)
C10_TimeoutIffNoDialSucceeded ==
    wp.pc = "done" =>
        IF wp.inErr # OK THEN wp.ret = wp.inErr /\ wp.dials = 0
        ELSE /\ wp.dials <= PortTimeoutLoops + 1
             /\ wp.ret = ErrTimeout <=> wp.failed = wp.dials
             /\ wp.failed < wp.dials => wp.ret = OK

=============================================================================
